---- MODULE Spec2Model ----
(***************************************************************************)
(* Model of the token price server (src/server/src/index.js, the           *)
(* tokensUpdated revision, lines 133-305): the entity store `tokens`, the  *)
(* periodic mutator simulatePriceUpdates, the TOKENS_UPDATED topic and the *)
(* filtered async iterator that tokensUpdated.subscribe returns.           *)
(*                                                                         *)
(* Strings are sequences of one-character strings so that toUpperCase is   *)
(* computed letter by letter.  Prices are integers in cents, change24h is  *)
(* an integer in hundredths of a percent; Math.round is round-half-up.     *)
(* A Math.random() result u/RandScale is represented by the integer u.     *)
(*                                                                         *)
(* next() of the filtered iterator is two steps, split at its await of     *)
(* baseIterator.next(): next_call runs up to the await, next_resume runs   *)
(* from the resolved result on.  The consumer calls next() again only once *)
(* the previous call has returned, as a for-await loop does; return() may  *)
(* be called at any time, also while a next() is in flight.  Timer         *)
(* callbacks are allowed between the two steps of next(), which is more    *)
(* than the event loop allows and only adds behaviours.                    *)
(*                                                                         *)
(* The topic (PubSub of graphql-subscriptions) is an imported library, not  *)
(* code of this server: it is modelled as the design's broadcast topic, a  *)
(* feed per attachment that queues what is published until it is pulled.   *)
(* Every payload carries the number of the tick that published it (seq),   *)
(* which stands for the identity of the payload object.                    *)
(***************************************************************************)
EXTENDS Integers, Sequences, FiniteSets, TLC

VARIABLES
    tokens,        \* the entity store: symbol key -> Token record
    published,     \* history: every payload handed to pubsub.publish, in order
    subState,      \* per subscription: "none" before subscribe(), then "open"
    requested,     \* per subscription: the `symbols` argument as given
    upperSymbols,  \* per subscription: symbols.map(toUpperCase)
    attachedAt,    \* history: Len(published) when the subscription attached
    attached,      \* base iterator: registered as a listener of the topic
    running,       \* base iterator: not yet returned
    pushQueue,     \* base iterator: payloads published and not yet pulled
    pc,            \* filter next(): "idle", "waiting" (await pending), "holding"
    result,        \* filter next(): the IteratorResult the await resolved with
    delivered,     \* history: the payloads next() returned to the consumer
    lastResult,    \* history: what the last completed next() returned
    returnCalls,   \* history: calls of return() so far: 0, 1, or 2 for more
    chosen,        \* history: symbolsToUpdate of the last timer callback
    lastQuery,     \* history: the last Query request and its response
    cache,         \* client: the normalized cache, identifier -> record
    cacheWritten   \* client: subscription results written to the cache

vars == <<tokens, published, subState, requested, upperSymbols, attachedAt,
          attached, running, pushQueue, pc, result, delivered, lastResult,
          returnCalls, chosen, lastQuery, cache, cacheWritten>>

----------------------------------------------------------------------------
(* Bounds of the model *)

MaxTicks == 2
RandScale == 100

\* The subscriptions of the model: two client operations
Subs == {"s1", "s2"}

----------------------------------------------------------------------------
(* Strings *)

LowerToUpper ==
    [c \in {"a","b","c","d","e","f","g","h","i","j","k","l","m",
            "n","o","p","q","r","s","t","u","v","w","x","y","z"} |->
       CASE c = "a" -> "A" [] c = "b" -> "B" [] c = "c" -> "C" [] c = "d" -> "D"
         [] c = "e" -> "E" [] c = "f" -> "F" [] c = "g" -> "G" [] c = "h" -> "H"
         [] c = "i" -> "I" [] c = "j" -> "J" [] c = "k" -> "K" [] c = "l" -> "L"
         [] c = "m" -> "M" [] c = "n" -> "N" [] c = "o" -> "O" [] c = "p" -> "P"
         [] c = "q" -> "Q" [] c = "r" -> "R" [] c = "s" -> "S" [] c = "t" -> "T"
         [] c = "u" -> "U" [] c = "v" -> "V" [] c = "w" -> "W" [] c = "x" -> "X"
         [] c = "y" -> "Y" [] c = "z" -> "Z"]

toUpperCase(str) ==
    [i \in 1..Len(str) |->
        IF str[i] \in DOMAIN LowerToUpper THEN LowerToUpper[str[i]] ELSE str[i]]

ETH == <<"E","T","H">>
BTC == <<"B","T","C">>
SOL == <<"S","O","L">>

EthId == <<"t","o","k","e","n",":","e","t","h","e","r","e","u","m",":",
           "n","a","t","i","v","e">>
BtcId == <<"t","o","k","e","n",":","b","i","t","c","o","i","n",":",
           "n","a","t","i","v","e">>
SolId == <<"t","o","k","e","n",":","s","o","l","a","n","a",":",
           "n","a","t","i","v","e">>

\* The `symbols` arguments the clients of the model subscribe with
RequestedLists == { <<<<"e","t","h">>, SOL>>, <<BTC>>, <<EthId>> }

\* Math.random() results, as u/RandScale, at each of its call sites
NumDraws == {0, RandScale - 1}
FluctuationDraws == {RandScale - 1}
DeltaDraws == {0}

----------------------------------------------------------------------------
(* The entity store *)

InitialTokens ==
    (ETH :> [tokenResourceId |-> EthId, symbol |-> ETH,
             name |-> <<"E","t","h","e","r","e","u","m">>,
             price |-> 225050, change24h |-> 250])
 @@ (BTC :> [tokenResourceId |-> BtcId, symbol |-> BTC,
             name |-> <<"B","i","t","c","o","i","n">>,
             price |-> 4350000, change24h |-> 180])
 @@ (SOL :> [tokenResourceId |-> SolId, symbol |-> SOL,
             name |-> <<"S","o","l","a","n","a">>,
             price |-> 9875, change24h |-> -50])

\* Object.keys(tokens): the keys in insertion order
allSymbols == <<ETH, BTC, SOL>>

\* the JavaScript value null
Null == [null |-> TRUE]

\* Query.token
Query_token(symbol) ==
    LET upperSymbol == toUpperCase(symbol)
    IN IF upperSymbol \in DOMAIN tokens THEN tokens[upperSymbol] ELSE Null

\* before any Query request
NoQuery == [field |-> "none", symbol |-> <<>>, data |-> Null, tick |-> 0]
\* Query.tokens
Query_tokens == [i \in 1..Len(allSymbols) |-> tokens[allSymbols[i]]]

----------------------------------------------------------------------------
(* The mutator: simulatePriceUpdates *)

\* Math.round(n / d) for d > 0: the nearest integer, halves towards +infinity
RoundDiv(n, d) == (2 * n + d) \div (2 * d)

\* Math.floor(Math.random() * 2): 0 or 1 instead of 1 or 2
NumToUpdate_floor(u) == IF 2 * u < RandScale THEN 0 ELSE 1

\* Math.random() < 0.5 ? 1 : 2
NumToUpdate(u) == IF 2 * u < RandScale THEN 1 ELSE 2

\* a draw of each position on its own: a symbol can come twice
Shuffles_withRepeats ==
    [1..Len(allSymbols) -> {allSymbols[i] : i \in 1..Len(allSymbols)}]
\* [...allSymbols].sort(() => Math.random() - 0.5): some permutation
Shuffles ==
    {p \in [1..Len(allSymbols) -> {allSymbols[i] : i \in 1..Len(allSymbols)}] :
        \A i, j \in 1..Len(allSymbols) : i # j => p[i] # p[j]}

\* Array.prototype.slice(0, n)
slice(arr, n) == SubSeq(arr, 1, IF n < Len(arr) THEN n ELSE Len(arr))

\* a price cut down to whole cents: Math.floor in the place of Math.round
MutatePrice_floor(price, u) ==
    price + (price * (2 * u - RandScale)) \div (50 * RandScale)
\* price * (1 + fluctuation) with fluctuation = (u/RandScale - 0.5) * 0.04,
\* rounded to cents: price + price * (2u - RandScale) / (50 * RandScale),
\* where the integer part price stays outside the rounding
MutatePrice(price, u) ==
    price + RoundDiv(price * (2 * u - RandScale), 50 * RandScale)

\* change24h + (u/RandScale - 0.5) * 0.5, rounded to hundredths
MutateChange(change24h, u) ==
    RoundDiv(change24h * RandScale + 25 * (2 * u - RandScale), RandScale)

\* an update that also rewrites the identifier, to the symbol
MutateToken_newId(token, fu, du) ==
    [token EXCEPT !.price = MutatePrice(token.price, fu),
                  !.change24h = MutateChange(token.change24h, du),
                  !.tokenResourceId = token.symbol]

\* one iteration of symbolsToUpdate.forEach: the token after the two writes
MutateToken(token, fu, du) ==
    [token EXCEPT !.price = MutatePrice(token.price, fu),
                  !.change24h = MutateChange(token.change24h, du)]

\* updatedTokens.push(token): the batch holds the store's own object, named
\* here by its key
spread_sameObject(token) == [ref |-> token.symbol]

\* { ...token }: a new object with the fields token has at this moment
spread(token) == token

\* reading an entry of a batch: the fields of the object the entry is
Deref(entry) == IF "ref" \in DOMAIN entry THEN tokens[entry.ref] ELSE entry

\* a loop that writes the new price to the store's object, and the new
\* change24h only to the copy it publishes
RECURSIVE ForEachUpdate_changeOnCopy(_, _, _, _, _, _)
ForEachUpdate_changeOnCopy(store, updatedTokens, symbolsToUpdate, fus, dus, i) ==
    IF i > Len(symbolsToUpdate)
    THEN [store |-> store, updatedTokens |-> updatedTokens]
    ELSE LET symbol == symbolsToUpdate[i]
             token == MutateToken(store[symbol], fus[i], dus[i])
         IN ForEachUpdate_changeOnCopy(
                [store EXCEPT ![symbol].price = token.price],
                Append(updatedTokens, spread(token)),
                symbolsToUpdate, fus, dus, i + 1)
\* a loop that pushes the copy of an entity before it mutates the entity
RECURSIVE ForEachUpdate_pushBefore(_, _, _, _, _, _)
ForEachUpdate_pushBefore(store, updatedTokens, symbolsToUpdate, fus, dus, i) ==
    IF i > Len(symbolsToUpdate)
    THEN [store |-> store, updatedTokens |-> updatedTokens]
    ELSE LET symbol == symbolsToUpdate[i]
             token == MutateToken(store[symbol], fus[i], dus[i])
         IN ForEachUpdate_pushBefore([store EXCEPT ![symbol] = token],
                                     Append(updatedTokens, spread(store[symbol])),
                                     symbolsToUpdate, fus, dus, i + 1)
\* the forEach loop from its i-th iteration on: the store and updatedTokens
RECURSIVE ForEachUpdate(_, _, _, _, _, _)
ForEachUpdate(store, updatedTokens, symbolsToUpdate, fus, dus, i) ==
    IF i > Len(symbolsToUpdate)
    THEN [store |-> store, updatedTokens |-> updatedTokens]
    ELSE LET symbol == symbolsToUpdate[i]
             token == MutateToken(store[symbol], fus[i], dus[i])
         IN ForEachUpdate([store EXCEPT ![symbol] = token],
                          Append(updatedTokens, spread(token)),
                          symbolsToUpdate, fus, dus, i + 1)

----------------------------------------------------------------------------
(* The topic and its per-subscription base iterator (graphql-subscriptions) *)

NoResult == [done |-> FALSE, value |-> [seq |-> 0, tokensUpdated |-> <<>>]]
DoneResult == [done |-> TRUE, value |-> [seq |-> 0, tokensUpdated |-> <<>>]]
ValueResult(payload) == [done |-> FALSE, value |-> payload]

\* pubsub.asyncIterator([TOKENS_UPDATED]): a feed of its own, attached now,
\* holding nothing that was published before
PubSub_asyncIterator ==
    [attached |-> TRUE, running |-> TRUE, pushQueue |-> <<>>]

\* pubsub.publish(TOKENS_UPDATED, payload) as seen by one base iterator:
\* a pending next() is resolved with the payload, otherwise it is queued;
\* an iterator that is not attached sees nothing
PubSub_publish(s, payload) ==
    IF ~attached[s]
    THEN [pc |-> pc[s], result |-> result[s], pushQueue |-> pushQueue[s]]
    ELSE IF pc[s] = "waiting"
    THEN [pc |-> "holding", result |-> ValueResult(payload),
          pushQueue |-> pushQueue[s]]
    ELSE [pc |-> pc[s], result |-> result[s],
          pushQueue |-> Append(pushQueue[s], payload)]

\* baseIterator.next(): the outcomes of the call.  A running iterator hands
\* over the oldest queued payload or leaves the caller waiting.  An iterator
\* that was returned either reports done or leaves the caller waiting
\* forever, depending on the release of the library.
BaseIterator_next(s) ==
    IF running[s]
    THEN IF pushQueue[s] # <<>>
         THEN {[pc |-> "holding", result |-> ValueResult(Head(pushQueue[s])),
                pushQueue |-> Tail(pushQueue[s])]}
         ELSE {[pc |-> "waiting", result |-> NoResult, pushQueue |-> <<>>]}
    ELSE {[pc |-> "holding", result |-> DoneResult, pushQueue |-> pushQueue[s]],
          [pc |-> "waiting", result |-> NoResult, pushQueue |-> pushQueue[s]]}

\* baseIterator.return(): the first call stops the iterator, resolves a
\* pending next() with done, drops the queue and detaches from the topic;
\* later calls change nothing
BaseIterator_return(s) ==
    IF running[s]
    THEN [attached |-> FALSE, running |-> FALSE, pushQueue |-> <<>>,
          pc |-> IF pc[s] = "waiting" THEN "holding" ELSE pc[s],
          result |-> IF pc[s] = "waiting" THEN DoneResult ELSE result[s]]
    ELSE [attached |-> attached[s], running |-> running[s],
          pushQueue |-> pushQueue[s], pc |-> pc[s], result |-> result[s]]

----------------------------------------------------------------------------
(* Initial state *)

Init ==
    /\ tokens = InitialTokens
    /\ published = <<>>
    /\ subState = [s \in Subs |-> "none"]
    /\ requested = [s \in Subs |-> <<>>]
    /\ upperSymbols = [s \in Subs |-> <<>>]
    /\ attachedAt = [s \in Subs |-> 0]
    /\ attached = [s \in Subs |-> FALSE]
    /\ running = [s \in Subs |-> FALSE]
    /\ pushQueue = [s \in Subs |-> <<>>]
    /\ pc = [s \in Subs |-> "idle"]
    /\ result = [s \in Subs |-> NoResult]
    /\ delivered = [s \in Subs |-> <<>>]
    /\ lastResult = [s \in Subs |-> "none"]
    /\ returnCalls = [s \in Subs |-> 0]
    /\ chosen = <<>>
    /\ lastQuery = NoQuery
    /\ cache = <<>>
    /\ cacheWritten = 0

----------------------------------------------------------------------------
(* Actions *)

\* a callback that publishes only once every subscriber has drained its feed
simulatePriceUpdates_awaitsConsumers(nu, shuffled, fus, dus) ==
    /\ Len(published) < MaxTicks
    /\ \A s \in Subs : pushQueue[s] = <<>>
    /\ LET numToUpdate == NumToUpdate(nu)
           symbolsToUpdate == slice(shuffled, numToUpdate)
           after == ForEachUpdate(tokens, <<>>, symbolsToUpdate, fus, dus, 1)
           payload == [seq |-> Len(published) + 1,
                       tokensUpdated |-> after.updatedTokens]
       IN /\ tokens' = after.store
          /\ published' = Append(published, payload)
          /\ chosen' = symbolsToUpdate
          /\ pc' = [s \in Subs |-> PubSub_publish(s, payload).pc]
          /\ result' = [s \in Subs |-> PubSub_publish(s, payload).result]
          /\ pushQueue' = [s \in Subs |-> PubSub_publish(s, payload).pushQueue]
    /\ UNCHANGED <<subState, requested, upperSymbols, attachedAt, attached,
                   running, delivered, lastResult, returnCalls>>
    /\ UNCHANGED <<lastQuery, cache, cacheWritten>>

\* the callback of the earlier revision: it mutates every entity of the
\* store, and publishes the selected ones
simulatePriceUpdates_everyToken(nu, shuffled, fus, dus) ==
    /\ Len(published) < MaxTicks
    /\ LET numToUpdate == NumToUpdate(nu)
           symbolsToUpdate == slice(shuffled, numToUpdate)
           after == ForEachUpdate(tokens, <<>>, symbolsToUpdate, fus, dus, 1)
           payload == [seq |-> Len(published) + 1,
                       tokensUpdated |-> after.updatedTokens]
       IN /\ tokens' = [key \in DOMAIN tokens |->
                           IF \E i \in 1..Len(symbolsToUpdate) : symbolsToUpdate[i] = key
                           THEN after.store[key]
                           ELSE MutateToken(tokens[key], fus[1], dus[1])]
          /\ published' = Append(published, payload)
          /\ chosen' = symbolsToUpdate
          /\ pc' = [s \in Subs |-> PubSub_publish(s, payload).pc]
          /\ result' = [s \in Subs |-> PubSub_publish(s, payload).result]
          /\ pushQueue' = [s \in Subs |-> PubSub_publish(s, payload).pushQueue]
    /\ UNCHANGED <<subState, requested, upperSymbols, attachedAt, attached,
                   running, delivered, lastResult, returnCalls>>
    /\ UNCHANGED <<lastQuery, cache, cacheWritten>>
\* One timer callback of simulatePriceUpdates
simulatePriceUpdates(nu, shuffled, fus, dus) ==
    /\ Len(published) < MaxTicks
    /\ LET numToUpdate == NumToUpdate(nu)
           symbolsToUpdate == slice(shuffled, numToUpdate)
           after == ForEachUpdate(tokens, <<>>, symbolsToUpdate, fus, dus, 1)
           payload == [seq |-> Len(published) + 1,
                       tokensUpdated |-> after.updatedTokens]
       IN /\ tokens' = after.store
          /\ published' = Append(published, payload)
          /\ chosen' = symbolsToUpdate
          /\ pc' = [s \in Subs |-> PubSub_publish(s, payload).pc]
          /\ result' = [s \in Subs |-> PubSub_publish(s, payload).result]
          /\ pushQueue' = [s \in Subs |-> PubSub_publish(s, payload).pushQueue]
    /\ UNCHANGED <<subState, requested, upperSymbols, attachedAt, attached,
                   running, delivered, lastResult, returnCalls>>
    /\ UNCHANGED <<lastQuery, cache, cacheWritten>>

Tick ==
    \E nu \in NumDraws, shuffled \in Shuffles :
    \E fus \in [1..2 -> FluctuationDraws], dus \in [1..2 -> DeltaDraws] :
        simulatePriceUpdates(nu, shuffled, fus, dus)

\* one iterator created when the module loads and shared by every
\* subscription: it holds what was published before the subscription
newBaseIterator_shared ==
    [attached |-> TRUE, running |-> TRUE, pushQueue |-> published]

\* const baseIterator = pubsub.asyncIterator([TOKENS_UPDATED]), per call
newBaseIterator == PubSub_asyncIterator

\* Subscription.tokensUpdated.subscribe(_, { symbols })
subscribe(s, symbols) ==
    /\ subState[s] = "none"
    /\ LET baseIterator == newBaseIterator
       IN /\ attached' = [attached EXCEPT ![s] = baseIterator.attached]
          /\ running' = [running EXCEPT ![s] = baseIterator.running]
          /\ pushQueue' = [pushQueue EXCEPT ![s] = baseIterator.pushQueue]
    /\ subState' = [subState EXCEPT ![s] = "open"]
    /\ requested' = [requested EXCEPT ![s] = symbols]
    /\ upperSymbols' = [upperSymbols EXCEPT ![s] =
                            [i \in 1..Len(symbols) |-> toUpperCase(symbols[i])]]
    /\ attachedAt' = [attachedAt EXCEPT ![s] = Len(published)]
    /\ UNCHANGED <<tokens, published, pc, result, delivered, lastResult,
                   returnCalls>>
    /\ UNCHANGED <<chosen, lastQuery, cache, cacheWritten>>

\* Array.prototype.includes
includes(arr, x) == \E i \in 1..Len(arr) : arr[i] = x

\* a filter that walks the requested symbols and looks each one up in the
\* batch: the same entities, in the order of the request
RECURSIVE filterByRequest(_, _, _)
filterByRequest(symbols, allUpdatedTokens, i) ==
    IF i > Len(symbols) THEN <<>>
    ELSE LET Is(token) == token.symbol = symbols[i]
         IN SelectSeq(allUpdatedTokens, Is)
            \o filterByRequest(symbols, allUpdatedTokens, i + 1)

filterTokens_requestOrder(s, allUpdatedTokens) ==
    filterByRequest(upperSymbols[s], allUpdatedTokens, 1)

\* allUpdatedTokens.filter(token => upperSymbols.includes(token.symbol))
filterTokens(s, allUpdatedTokens) ==
    LET Test(token) == includes(upperSymbols[s], Deref(token).symbol)
    IN SelectSeq(allUpdatedTokens, Test)

\* the consumer calls next() on the filtered iterator: the body runs up to
\* its first await of baseIterator.next()
next_call(s) ==
    /\ subState[s] = "open"
    /\ pc[s] = "idle"
    /\ \E o \in BaseIterator_next(s) :
          /\ pc' = [pc EXCEPT ![s] = o.pc]
          /\ result' = [result EXCEPT ![s] = o.result]
          /\ pushQueue' = [pushQueue EXCEPT ![s] = o.pushQueue]
    /\ UNCHANGED <<tokens, published, subState, requested, upperSymbols,
                   attachedAt, attached, running, delivered, lastResult,
                   returnCalls>>
    /\ UNCHANGED <<chosen, lastQuery, cache, cacheWritten>>

\* a return that leaves the raw result in place for the next call
returnFiltered_again(s, filteredTokens) ==
    /\ delivered' = [delivered EXCEPT ![s] =
          Append(@, [seq |-> result[s].value.seq,
                     tokensUpdated |-> filteredTokens])]
    /\ pc' = [pc EXCEPT ![s] = "idle"]
    /\ result' = [result EXCEPT ![s] = NoResult]
    /\ lastResult' = [lastResult EXCEPT ![s] = "value"]
    /\ pushQueue' = [pushQueue EXCEPT ![s] = <<result[s].value>> \o @]

\* return { value: { tokensUpdated: filteredTokens }, done: false }
returnFiltered(s, filteredTokens) ==
    /\ delivered' = [delivered EXCEPT ![s] =
          Append(@, [seq |-> result[s].value.seq,
                     tokensUpdated |-> filteredTokens])]
    /\ pc' = [pc EXCEPT ![s] = "idle"]
    /\ result' = [result EXCEPT ![s] = NoResult]
    /\ lastResult' = [lastResult EXCEPT ![s] = "value"]
    /\ UNCHANGED pushQueue

\* a next() without the test of result.done: a done result is skipped like
\* an empty intersection and baseIterator.next() is awaited again
next_resume_ignoresDone(s) ==
    /\ pc[s] = "holding"
    /\ LET allUpdatedTokens == result[s].value.tokensUpdated
           filteredTokens == filterTokens(s, allUpdatedTokens)
       IN IF Len(filteredTokens) > 0
          THEN returnFiltered(s, filteredTokens)
          ELSE /\ \E o \in BaseIterator_next(s) :
                     /\ pc' = [pc EXCEPT ![s] = o.pc]
                     /\ result' = [result EXCEPT ![s] = o.result]
                     /\ pushQueue' = [pushQueue EXCEPT ![s] = o.pushQueue]
               /\ UNCHANGED <<delivered, lastResult>>
    /\ UNCHANGED <<tokens, published, subState, requested, upperSymbols,
                   attachedAt, attached, running, returnCalls>>
    /\ UNCHANGED <<chosen, lastQuery, cache, cacheWritten>>
\* next() resumes after the await with `result`: return a done result as it
\* is, return the filtered payload when it is not empty, else loop and await
\* baseIterator.next() again
next_resume(s) ==
    /\ pc[s] = "holding"
    /\ IF result[s].done
       THEN /\ pc' = [pc EXCEPT ![s] = "idle"]
            /\ result' = [result EXCEPT ![s] = NoResult]
            /\ lastResult' = [lastResult EXCEPT ![s] = "done"]
            /\ UNCHANGED <<delivered, pushQueue>>
       ELSE LET allUpdatedTokens == result[s].value.tokensUpdated
                filteredTokens == filterTokens(s, allUpdatedTokens)
            IN IF Len(filteredTokens) > 0
               THEN returnFiltered(s, filteredTokens)
               ELSE /\ \E o \in BaseIterator_next(s) :
                          /\ pc' = [pc EXCEPT ![s] = o.pc]
                          /\ result' = [result EXCEPT ![s] = o.result]
                          /\ pushQueue' = [pushQueue EXCEPT ![s] = o.pushQueue]
                    /\ UNCHANGED <<delivered, lastResult>>
    /\ UNCHANGED <<tokens, published, subState, requested, upperSymbols,
                   attachedAt, attached, running, returnCalls>>
    /\ UNCHANGED <<chosen, lastQuery, cache, cacheWritten>>

\* a return() over one base iterator shared by all subscriptions
return_call_shared(s) ==
    /\ subState[s] = "open"
    /\ attached' = [t \in Subs |-> BaseIterator_return(t).attached]
    /\ running' = [t \in Subs |-> BaseIterator_return(t).running]
    /\ pushQueue' = [t \in Subs |-> BaseIterator_return(t).pushQueue]
    /\ pc' = [t \in Subs |-> BaseIterator_return(t).pc]
    /\ result' = [t \in Subs |-> BaseIterator_return(t).result]
    /\ returnCalls' = [returnCalls EXCEPT ![s] = IF @ = 0 THEN 1 ELSE 2]
    /\ UNCHANGED <<tokens, published, subState, requested, upperSymbols,
                   attachedAt, delivered, lastResult>>
    /\ UNCHANGED <<chosen, lastQuery, cache, cacheWritten>>

\* a return() that tears the feed down on every call, first or not
return_call_everyTime(s) ==
    /\ subState[s] = "open"
    /\ attached' = [attached EXCEPT ![s] = FALSE]
    /\ running' = [running EXCEPT ![s] = FALSE]
    /\ pushQueue' = [pushQueue EXCEPT ![s] = <<>>]
    /\ pc' = [pc EXCEPT ![s] = IF @ = "waiting" THEN "holding" ELSE @]
    /\ result' = [result EXCEPT ![s] =
                      IF pc[s] = "waiting" THEN DoneResult ELSE @]
    /\ returnCalls' = [returnCalls EXCEPT ![s] = IF @ = 0 THEN 1 ELSE 2]
    /\ UNCHANGED <<tokens, published, subState, requested, upperSymbols,
                   attachedAt, delivered, lastResult>>
    /\ UNCHANGED <<chosen, lastQuery, cache, cacheWritten>>

\* the consumer calls return() on the filtered iterator
return_call(s) ==
    /\ subState[s] = "open"
    /\ LET r == BaseIterator_return(s)
       IN /\ attached' = [attached EXCEPT ![s] = r.attached]
          /\ running' = [running EXCEPT ![s] = r.running]
          /\ pushQueue' = [pushQueue EXCEPT ![s] = r.pushQueue]
          /\ pc' = [pc EXCEPT ![s] = r.pc]
          /\ result' = [result EXCEPT ![s] = r.result]
    /\ returnCalls' = [returnCalls EXCEPT ![s] = IF @ = 0 THEN 1 ELSE 2]
    /\ UNCHANGED <<tokens, published, subState, requested, upperSymbols,
                   attachedAt, delivered, lastResult>>
    /\ UNCHANGED <<chosen, lastQuery, cache, cacheWritten>>

\* return() has been called on the filtered iterator of s
\* a token resolver that refreshes the price of the entity it reads
query_token_refreshes(symbol) ==
    /\ LET upperSymbol == toUpperCase(symbol)
       IN tokens' = IF upperSymbol \in DOMAIN tokens
                    THEN [tokens EXCEPT ![upperSymbol].price =
                              MutatePrice(@, RandScale - 1)]
                    ELSE tokens
    /\ lastQuery' = [field |-> "token", symbol |-> symbol,
                     data |-> Query_token(symbol)', tick |-> Len(published)]
    /\ UNCHANGED <<published, subState, requested, upperSymbols, attachedAt,
                   attached, running, pushQueue, pc, result, delivered,
                   lastResult, returnCalls, chosen, cache, cacheWritten>>

\* one request of Query.token(symbol) and its response
query_token(symbol) ==
    /\ lastQuery' = [field |-> "token", symbol |-> symbol,
                     data |-> Query_token(symbol), tick |-> Len(published)]
    /\ UNCHANGED <<tokens, published, subState, requested, upperSymbols,
                   attachedAt, attached, running, pushQueue, pc, result,
                   delivered, lastResult, returnCalls, chosen, cache,
                   cacheWritten>>

\* one request of Query.tokens and its response
query_tokens ==
    /\ lastQuery' = [field |-> "tokens", symbol |-> <<>>,
                     data |-> Query_tokens, tick |-> Len(published)]
    /\ UNCHANGED <<tokens, published, subState, requested, upperSymbols,
                   attachedAt, attached, running, pushQueue, pc, result,
                   delivered, lastResult, returnCalls, chosen, cache,
                   cacheWritten>>
cancelled(s) == returnCalls[s] > 0

----------------------------------------------------------------------------
(* Specifications *)

\* One client: every draw of the mutator, one subscription and its consumer
Subscribe == \E symbols \in RequestedLists : subscribe("s1", symbols)
NextCall == next_call("s1")
NextResume == next_resume("s1")
Return == return_call("s1")

Next == Tick \/ Subscribe \/ NextCall \/ NextResume \/ Return

Spec == Init /\ [][Next]_vars

\* Two clients: the second subscribes after the first; the mutator's sort
\* leaves the keys in the order of Object.keys
TickInOrder ==
    \E nu \in NumDraws :
    \E fus \in [1..2 -> FluctuationDraws], dus \in [1..2 -> DeltaDraws] :
        simulatePriceUpdates(nu, allSymbols, fus, dus)

FanOutLists == { <<<<"e","t","h">>, SOL>>, <<BTC>> }

SubscribeAny ==
    \E s \in Subs, symbols \in FanOutLists :
        /\ s = "s2" => subState["s1"] = "open"
        /\ subscribe(s, symbols)
NextCallAny == \E s \in Subs : next_call(s)
NextResumeAny == \E s \in Subs : next_resume(s)
ReturnAny == \E s \in Subs : return_call(s)

NextFanOut ==
    TickInOrder \/ SubscribeAny \/ NextCallAny \/ NextResumeAny \/ ReturnAny

SpecFanOut == Init /\ [][NextFanOut]_vars

----------------------------------------------------------------------------
(* What the properties are stated in: the requested entities, the           *)
(* restriction of a raw batch to them, and the stream a subscription is     *)
(* owed, each computed from the inputs and the publish history alone        *)

\* the entities a `symbols` argument names, whatever the letter case
RequestedSet(s) ==
    {key \in DOMAIN tokens :
        \E i \in 1..Len(requested[s]) : toUpperCase(requested[s][i]) = key}

\* the entities of batch B that are in S, in their order in B
RECURSIVE Restrict(_, _)
Restrict(B, S) ==
    IF B = <<>> THEN <<>>
    ELSE IF Head(B).symbol \in S
         THEN <<Head(B)>> \o Restrict(Tail(B), S)
         ELSE Restrict(Tail(B), S)

\* the non-empty restrictions of the payloads numbered from..to, in order
RECURSIVE Owed(_, _, _)
Owed(S, from, to) ==
    IF from > to THEN <<>>
    ELSE LET B == Restrict(published[from].tokensUpdated, S)
         IN IF B = <<>> THEN Owed(S, from + 1, to)
            ELSE <<[seq |-> from, tokensUpdated |-> B]>> \o Owed(S, from + 1, to)

\* everything published since s attached, restricted to what s requested
Expected(s) == Owed(RequestedSet(s), attachedAt[s] + 1, Len(published))

IsPrefix(a, b) == Len(a) <= Len(b) /\ a = SubSeq(b, 1, Len(a))

\* the raw payloads s has been handed or has queued, oldest first
Pending(s) ==
    (IF pc[s] = "holding" /\ ~result[s].done THEN <<result[s].value>> ELSE <<>>)
    \o pushQueue[s]

\* Pending(s) restricted to what s requested, empty restrictions dropped
RECURSIVE RestrictAll(_, _)
RestrictAll(payloads, S) ==
    IF payloads = <<>> THEN <<>>
    ELSE LET B == Restrict(Head(payloads).tokensUpdated, S)
         IN IF B = <<>> THEN RestrictAll(Tail(payloads), S)
            ELSE <<[seq |-> Head(payloads).seq, tokensUpdated |-> B]>>
                 \o RestrictAll(Tail(payloads), S)

Open == {s \in Subs : subState[s] = "open"}

----------------------------------------------------------------------------
(* C1: next() yields a batch for a raw batch B exactly when B meets the     *)
(* requested set S, and what it yields is B restricted to S in B's order:   *)
(* the batches handed over are always the first ones of the stream owed,    *)
(* none of them empty, and a consumer left waiting on an attached feed has  *)
(* been handed all of them.                                                 *)
C1_FilterYieldsExactIntersection ==
    \A s \in Open :
        /\ IsPrefix(delivered[s], Expected(s))
        /\ \A i \in 1..Len(delivered[s]) : delivered[s][i].tokensUpdated # <<>>
        /\ (pc[s] = "waiting" /\ running[s]) => delivered[s] = Expected(s)

\* a subscriber of {eth, SOL}: one tick changed BTC alone and yielded
\* nothing, a later one changed SOL then ETH and was yielded in that order
C1_Witness ==
    /\ subState["s1"] = "open" /\ requested["s1"] = <<<<"e","t","h">>, SOL>>
    /\ pc["s1"] = "waiting" /\ running["s1"]
    /\ Len(published) = 2 /\ attachedAt["s1"] = 0
    /\ Len(published[1].tokensUpdated) = 1
    /\ published[1].tokensUpdated[1].symbol = BTC
    /\ Len(delivered["s1"]) = 1
    /\ delivered["s1"][1].seq = 2
    /\ Len(delivered["s1"][1].tokensUpdated) = 2
    /\ delivered["s1"][1].tokensUpdated[1].symbol = SOL
    /\ delivered["s1"][1].tokensUpdated[2].symbol = ETH

----------------------------------------------------------------------------
(* C2: every batch simulatePriceUpdates publishes is non-empty, on every    *)
(* tick, whatever the ticks before it did.                                  *)
C2_PublishedBatchesNonEmpty ==
    \A k \in 1..Len(published) : Len(published[k].tokensUpdated) > 0

\* two ticks have published, one entity and then two
C2_Witness ==
    /\ Len(published) = 2
    /\ Len(published[1].tokensUpdated) = 1
    /\ Len(published[2].tokensUpdated) = 2

----------------------------------------------------------------------------
(* C3: what one subscriber is handed by successive next() calls is a        *)
(* subsequence of the publish sequence: in publish order, no payload twice, *)
(* and nothing that was not published.                                      *)
C3_DeliveredIsSubsequenceOfPublished ==
    \A s \in Open :
        /\ \A i, j \in 1..Len(delivered[s]) :
              i < j => delivered[s][i].seq < delivered[s][j].seq
        /\ \A i \in 1..Len(delivered[s]) :
              /\ delivered[s][i].seq \in 1..Len(published)
              /\ \A n \in 1..Len(delivered[s][i].tokensUpdated) :
                    \E m \in 1..Len(published[delivered[s][i].seq].tokensUpdated) :
                        published[delivered[s][i].seq].tokensUpdated[m]
                            = delivered[s][i].tokensUpdated[n]

\* two payloads were queued before the consumer pulled them, and it was
\* handed both, the first one first
C3_Witness ==
    /\ Len(delivered["s1"]) = 2
    /\ delivered["s1"][1].seq = 1
    /\ delivered["s1"][2].seq = 2
    /\ pushQueue["s1"] = <<>>

----------------------------------------------------------------------------
(* C6: a subscriber is only handed batches published after subscribe()      *)
(* attached it: nothing published before is replayed to it.                 *)
C6_NoReplayBeforeAttach ==
    \A s \in Open :
        \A i \in 1..Len(delivered[s]) : delivered[s][i].seq > attachedAt[s]

\* the subscription attached after a first batch it would have matched, and
\* was handed the second batch only
C6_Witness ==
    /\ subState["s1"] = "open" /\ attachedAt["s1"] = 1
    /\ Restrict(published[1].tokensUpdated, RequestedSet("s1")) # <<>>
    /\ Len(delivered["s1"]) = 1
    /\ delivered["s1"][1].seq = 2
    /\ pc["s1"] = "waiting"

----------------------------------------------------------------------------
(* C7: the identifier of an entity is present and the same in every         *)
(* emission: what the token and tokens queries return now is the identifier *)
(* the entity started with, and every published and every delivered batch   *)
(* carries, for each entity, the identifier the queries return.             *)
QueryInputs == {ETH, BTC, SOL, <<"e","t","h">>, <<"b","t","c">>, <<"s","o","l">>}

C7_IdentifierStableAcrossEmissions ==
    /\ \A x \in QueryInputs :
          /\ Query_token(x) # Null
          /\ Query_token(x).tokenResourceId # <<>>
          /\ Query_token(x).tokenResourceId
                = InitialTokens[toUpperCase(x)].tokenResourceId
    /\ \A i \in 1..Len(Query_tokens) :
          Query_tokens[i].tokenResourceId
            = InitialTokens[Query_tokens[i].symbol].tokenResourceId
    /\ \A k \in 1..Len(published) :
          \A n \in 1..Len(published[k].tokensUpdated) :
              LET e == published[k].tokensUpdated[n]
              IN e.tokenResourceId = Query_token(e.symbol).tokenResourceId
    /\ \A s \in Open :
          \A i \in 1..Len(delivered[s]) :
              \A n \in 1..Len(delivered[s][i].tokensUpdated) :
                  LET e == delivered[s][i].tokensUpdated[n]
                  IN /\ e.tokenResourceId # <<>>
                     /\ e.tokenResourceId = Query_token(e.symbol).tokenResourceId

\* ETH was mutated by two ticks and both batches reached the subscriber
C7_Witness ==
    /\ Len(delivered["s1"]) = 2
    /\ delivered["s1"][1].tokensUpdated[1].symbol = ETH
    /\ delivered["s1"][2].tokensUpdated[1].symbol = ETH
    /\ tokens[ETH].price # delivered["s1"][1].tokensUpdated[1].price
    /\ tokens[ETH].price # InitialTokens[ETH].price

----------------------------------------------------------------------------
(* C4: calling return() on the filtered iterator detaches it from the topic *)
(* and, from then on, no batch is handed to that subscriber.                *)
C4_CancelDetachesAndSilences ==
    /\ [](\A s \in Open : cancelled(s) => ~attached[s])
    /\ [][\A s \in Open : cancelled(s) => delivered'[s] = delivered[s]]_vars

----------------------------------------------------------------------------
(* C5: once return() has been called while a next() call is in flight,      *)
(* waiting on the raw feed or holding a raw batch it has not yet filtered,  *)
(* that call takes no further raw batch from the feed and hands no batch to *)
(* the consumer.                                                            *)
C5_InFlightNextStopsOnCancel ==
    [][\A s \in Open :
          (cancelled(s) /\ pc[s] # "idle") =>
              /\ delivered'[s] = delivered[s]
              /\ (pc'[s] = "holding" /\ ~result'[s].done)
                    => result'[s] = result[s]]_vars

----------------------------------------------------------------------------
(* C8: a subscriber that has stopped calling next() without cancelling      *)
(* holds back neither the mutator nor another subscriber: the next tick can *)
(* still publish, and every other running subscriber can still take its     *)
(* next step and has lost none of the batches that meet its own request.    *)
Stalled(s) == running[s] /\ pc[s] = "idle" /\ pushQueue[s] # <<>>

C8_StalledSubscriberBlocksNobody ==
    \A s \in Open :
        Stalled(s) =>
            /\ Len(published) < MaxTicks => ENABLED TickInOrder
            /\ \A t \in Open \ {s} :
                  running[t] =>
                      /\ delivered[t]
                            \o RestrictAll(Pending(t), RequestedSet(t))
                          = Expected(t)
                      /\ pc[t] = "idle" => ENABLED next_call(t)
                      /\ pc[t] = "holding" => ENABLED next_resume(t)
                      /\ pc[t] = "waiting" => delivered[t] = Expected(t)

\* the first subscriber never called next() and has two batches queued,
\* the second was handed both ticks' batches
C8_Witness ==
    /\ Stalled("s1") /\ Len(pushQueue["s1"]) = 2 /\ delivered["s1"] = <<>>
    /\ subState["s2"] = "open" /\ running["s2"]
    /\ Len(delivered["s2"]) = 2

----------------------------------------------------------------------------
(* C9: subscriptions are independent: a step that attaches or cancels one   *)
(* subscriber changes nothing of any other subscriber's feed or deliveries, *)
(* and what a subscriber has been handed is always the start of the stream  *)
(* its own request and attach point owe it.                                 *)
Feed(t) == <<attached[t], running[t], pushQueue[t], pc[t], result[t],
             delivered[t], lastResult[t]>>

C9_SubscriptionsIndependent ==
    /\ [][\A s \in Subs :
            (subState'[s] # subState[s] \/ returnCalls'[s] # returnCalls[s])
                => \A t \in Subs \ {s} : Feed(t)' = Feed(t)]_vars
    /\ [](\A t \in Open : IsPrefix(delivered[t], Expected(t)))

\* the second subscriber attached and the first was cancelled while the
\* second still had a batch queued; the second was then handed it
C9_Witness ==
    /\ cancelled("s1") /\ subState["s2"] = "open" /\ running["s2"]
    /\ attachedAt["s2"] = 1 /\ attachedAt["s1"] = 0
    /\ delivered["s1"] # <<>>
    /\ Len(delivered["s2"]) = 1 /\ delivered["s2"][1].seq = 2

----------------------------------------------------------------------------
(* C10: a second return() on the same filtered iterator is a no-op: the     *)
(* step changes nothing but the count of calls, for the subscription itself *)
(* and for every other one.                                                 *)
C10_SecondReturnIsNoOp ==
    [][\A s \in Subs :
          (returnCalls[s] >= 1 /\ returnCalls'[s] # returnCalls[s]) =>
              UNCHANGED <<tokens, published, subState, requested, upperSymbols,
                          attachedAt, attached, running, pushQueue, pc, result,
                          delivered, lastResult>>]_vars

\* return() was called twice on the first subscription while the second one
\* stays attached with a batch queued
C10_Witness ==
    /\ returnCalls["s1"] = 2 /\ ~attached["s1"]
    /\ attached["s2"] /\ pushQueue["s2"] # <<>>

----------------------------------------------------------------------------
(* Subscriptions with any request, the malformed ones included *)

DOGE == <<"D","O","G","E">>

\* requests of a client: an empty list, an unknown symbol, a known symbol
AnyLists == { <<>>, <<DOGE>>, <<BTC>> }

SubscribeAnyList == \E symbols \in AnyLists : subscribe("s1", symbols)

NextRequests == Tick \/ SubscribeAnyList \/ NextCall \/ NextResume \/ Return

SpecRequests == Init /\ [][NextRequests]_vars

\* the identifier x names the entity stored under key: by its symbol in any
\* letter case, or by its raw id
Resolves(x, key) ==
    toUpperCase(x) = key \/ x = tokens[key].tokenResourceId

\* the canonical identity set of a request
KnownEntities(symbols) ==
    {key \in DOMAIN tokens : \E i \in 1..Len(symbols) : Resolves(symbols[i], key)}

\* C11: a subscribe call whose request is empty, or names no known entity,
\* is reported invalid at subscribe time and gets no attachment to the
\* topic: it never becomes an open subscription with a base iterator.
C11_InvalidRequestRejected ==
    \A s \in Subs :
        (subState[s] # "none" /\ KnownEntities(requested[s]) = {})
            => (subState[s] = "invalid" /\ ~attached[s] /\ ~running[s])

----------------------------------------------------------------------------
(* The read path next to the mutator and one subscription *)

\* arguments of Query.token: each symbol in both letter cases, each raw id,
\* and a symbol that is no entity's
TokenArguments ==
    {ETH, BTC, SOL, <<"e","t","h">>, <<"b","t","c">>, <<"s","o","l">>,
     EthId, BtcId, SolId, DOGE}

QueryToken == \E symbol \in TokenArguments : query_token(symbol)
QueryTokens == query_tokens

NextQuery ==
    TickInOrder \/ QueryToken \/ QueryTokens \/ Subscribe \/ NextCall
        \/ NextResume \/ Return

SpecQuery == Init /\ [][NextQuery]_vars

\* C12: the single-entity lookup resolves an entity by its id or by its
\* symbol in any letter case: a response to token(x), where x is the symbol
\* of an entity in some letter case or its raw id, is that entity.
C12_LookupByIdOrSymbol ==
    lastQuery.field = "token" =>
        \A key \in DOMAIN tokens :
            Resolves(lastQuery.symbol, key) =>
                /\ lastQuery.data # Null
                /\ lastQuery.data.tokenResourceId = tokens[key].tokenResourceId

----------------------------------------------------------------------------
(* Two subscriptions to one entity: by its raw id, and by its symbol *)

SubscribeById ==
    \/ subscribe("s1", <<EthId>>)
    \/ subState["s1"] = "open" /\ subscribe("s2", <<<<"e","t","h">>>>)

NextById ==
    TickInOrder \/ SubscribeById \/ NextCallAny \/ NextResumeAny \/ ReturnAny

SpecById == Init /\ [][NextById]_vars

\* s has consumed every raw payload of its feed and was not cancelled
CaughtUp(s) == running[s] /\ returnCalls[s] = 0 /\ Pending(s) = <<>>

\* C13: a subscription that names an entity by its raw id receives the same
\* sequence of batches as one that names it by its symbol: two subscriptions
\* that resolve to the same entities, attached at the same point of the
\* stream and both caught up with it, have been delivered the same batches.
C13_IdAndSymbolRequestsAgree ==
    \A s, t \in Open :
        ( /\ KnownEntities(requested[s]) = KnownEntities(requested[t])
          /\ attachedAt[s] = attachedAt[t]
          /\ CaughtUp(s) /\ CaughtUp(t) )
            => delivered[s] = delivered[t]

----------------------------------------------------------------------------
\* C14: the read path is pure: as long as no mutation tick has run since a
\* lookup was answered, the same lookup returns the value it returned then;
\* and a step that answers a token or tokens lookup leaves the entity store,
\* the published history and every subscriber's feed and deliveries as
\* they were.
C14_ReadPathIsPure ==
    /\ [](lastQuery.tick = Len(published) =>
            /\ lastQuery.field = "token" =>
                   Query_token(lastQuery.symbol) = lastQuery.data
            /\ lastQuery.field = "tokens" => Query_tokens = lastQuery.data)
    /\ [][lastQuery' # lastQuery =>
            UNCHANGED <<tokens, published, subState, requested, upperSymbols,
                        attachedAt, attached, running, pushQueue, pc, result,
                        delivered, lastResult, returnCalls, chosen>>]_vars

\* a lookup of a mutated entity was answered after the last tick, while the
\* subscriber had a delivery pending
C14_Witness ==
    /\ lastQuery.field = "token"
    /\ lastQuery.data # Null
    /\ lastQuery.tick = Len(published)
    /\ lastQuery.data.price # InitialTokens[lastQuery.data.symbol].price
    /\ pushQueue["s1"] # <<>>

----------------------------------------------------------------------------
\* the entity values a consumer reads in a batch it holds
Values(batch) ==
    [j \in 1..Len(batch.tokensUpdated) |-> Deref(batch.tokensUpdated[j])]

----------------------------------------------------------------------------
(* The client: its documents, and the normalized cache its results are     *)
(* written to                                                              *)

\* the selection of GET_TOKEN
GET_TOKEN == {"tokenResourceId", "symbol", "name", "price", "change24h"}

\* a subscription document that selects no identifier
TOKENS_SUBSCRIPTION_withoutId == {"price", "change24h"}

\* the selection of TOKENS_SUBSCRIPTION
TOKENS_SUBSCRIPTION == {"tokenResourceId", "price", "change24h"}

\* const TOKENS = ['ETH', 'BTC', 'SOL']
TOKENS == <<ETH, BTC, SOL>>

\* the fields of an entity that a document selects
select(token, fields) == [f \in fields |-> token[f]]

\* one record written to the cache: it is stored under its identifier and
\* merged field by field into the record already there; a record without
\* an identifier is not normalized
cacheWrite(c, record) ==
    IF "tokenResourceId" \notin DOMAIN record THEN c
    ELSE LET id == record.tokenResourceId
             old == IF id \in DOMAIN c THEN c[id] ELSE [f \in {} |-> Null]
             merged == [f \in DOMAIN old \cup DOMAIN record |->
                           IF f \in DOMAIN record THEN record[f] ELSE old[f]]
         IN [x \in DOMAIN c \cup {id} |-> IF x = id THEN merged ELSE c[x]]

\* the records of one result, written one after the other from the i-th on
RECURSIVE cacheWriteAll(_, _, _)
cacheWriteAll(c, records, i) ==
    IF i > Len(records) THEN c
    ELSE cacheWriteAll(cacheWrite(c, records[i]), records, i + 1)

\* useQuery(GET_TOKEN, { variables: { symbol } }): the request, and its
\* response written to the cache
useQuery(symbol) ==
    /\ lastQuery' = [field |-> "token", symbol |-> symbol,
                     data |-> Query_token(symbol), tick |-> Len(published)]
    /\ cache' = IF Query_token(symbol) = Null THEN cache
                ELSE cacheWrite(cache, select(Query_token(symbol), GET_TOKEN))
    /\ UNCHANGED <<tokens, published, subState, requested, upperSymbols,
                   attachedAt, attached, running, pushQueue, pc, result,
                   delivered, lastResult, returnCalls, chosen, cacheWritten>>

\* useSubscription(TOKENS_SUBSCRIPTION, ...): the next result the
\* subscription s has delivered is written to the cache
useSubscription_onData(s) ==
    /\ cacheWritten < Len(delivered[s])
    /\ LET batch == delivered[s][cacheWritten + 1].tokensUpdated
           records == [j \in 1..Len(batch) |->
                          select(Deref(batch[j]), TOKENS_SUBSCRIPTION)]
       IN cache' = cacheWriteAll(cache, records, 1)
    /\ cacheWritten' = cacheWritten + 1
    /\ UNCHANGED <<tokens, published, subState, requested, upperSymbols,
                   attachedAt, attached, running, pushQueue, pc, result,
                   delivered, lastResult, returnCalls, chosen, lastQuery>>

UseQuery == \E i \in 1..Len(TOKENS) : useQuery(TOKENS[i])
UseSubscription == subscribe("s1", TOKENS)
OnData == useSubscription_onData("s1")

NextClient ==
    TickInOrder \/ UseQuery \/ UseSubscription \/ NextCall \/ NextResume
        \/ OnData

SpecClient == Init /\ [][NextClient]_vars

\* the entries of the result that a cache write has just taken in
WrittenBatch == delivered["s1"][cacheWritten'].tokensUpdated

----------------------------------------------------------------------------
\* the (price, change24h) pairs that the entity under key has been given:
\* its initial pair and, for each of the first n ticks that mutated it, the
\* pair which that tick wrote
PairsWritten(key, n) ==
    {<<InitialTokens[key].price, InitialTokens[key].change24h>>}
    \cup UNION {{<<Deref(published[k].tokensUpdated[j]).price,
                   Deref(published[k].tokensUpdated[j]).change24h>> :
                   j \in {j \in 1..Len(published[k].tokensUpdated) :
                            Deref(published[k].tokensUpdated[j]).symbol = key}} :
                k \in 1..n}

\* the price and change24h of a record that a lookup returned were written
\* by one tick, one of those that ran before the lookup
PairFromOneTick(record) ==
    <<record.price, record.change24h>>
        \in PairsWritten(record.symbol, lastQuery.tick)

\* C17: a token or tokens lookup that interleaves with mutation ticks
\* observes, for each entity, a price and a change24h written by the same
\* tick (or the initial pair), never the price of one tick with the
\* change24h of another.
C17_ReadsSeeWholeTicks ==
    /\ (lastQuery.field = "token" /\ lastQuery.data # Null)
          => PairFromOneTick(lastQuery.data)
    /\ lastQuery.field = "tokens"
          => \A i \in 1..Len(lastQuery.data) : PairFromOneTick(lastQuery.data[i])

\* a tokens lookup was answered between two ticks that both mutated the
\* first entity it returned
C17_Witness ==
    /\ lastQuery.field = "tokens"
    /\ lastQuery.tick = 1 /\ Len(published) = 2
    /\ lastQuery.data[1].price # InitialTokens[lastQuery.data[1].symbol].price
    /\ lastQuery.data[1].price # tokens[lastQuery.data[1].symbol].price

----------------------------------------------------------------------------
(* The mutator alone, with the extremes and the midpoint of its draws *)

\* draws of Math.random() for the fluctuation and the change: the least,
\* the one that leaves the value as it is, the greatest
WideDraws == {0, RandScale \div 2, RandScale - 1}

TickWide ==
    \E nu \in NumDraws, shuffled \in Shuffles :
    \E fus \in [1..2 -> WideDraws], dus \in [1..2 -> DeltaDraws] :
        simulatePriceUpdates(nu, shuffled, fus, dus)

NextMutator == TickWide

SpecMutator == Init /\ [][NextMutator]_vars

\* the symbols in a sequence of symbols
Range(seq) == {seq[i] : i \in 1..Len(seq)}

\* this step is a mutation tick
IsTick == published' # published

\* the batch that this tick publishes
NewBatch == published'[Len(published')].tokensUpdated

\* C18: a mutation tick changes only the price and change24h of the entities
\* it selected: the id, symbol and name of every entity, and every field of
\* every entity that was not selected, are after the tick what they were
\* before it.
C18_TickChangesOnlySelectedPrices ==
    [][IsTick =>
         /\ DOMAIN tokens' = DOMAIN tokens
         /\ \A key \in DOMAIN tokens :
              /\ DOMAIN tokens'[key] = DOMAIN tokens[key]
              /\ tokens'[key].tokenResourceId = tokens[key].tokenResourceId
              /\ tokens'[key].symbol = tokens[key].symbol
              /\ tokens'[key].name = tokens[key].name
              /\ key \notin Range(chosen') => tokens'[key] = tokens[key]]_vars

\* the last tick selected one entity and changed its price, and another
\* entity still has its initial record
C18_Witness ==
    /\ Len(chosen) = 1
    /\ tokens[chosen[1]].price # InitialTokens[chosen[1]].price
    /\ Len(published) = 2
    /\ \E key \in DOMAIN tokens : tokens[key] = InitialTokens[key]

----------------------------------------------------------------------------
\* C19: the batch published by a tick contains exactly the entities mutated
\* in that tick, each once and in the order they were chosen, and each
\* entry is a full entity record equal to the value that entity has in the
\* store when the batch is published.
C19_BatchIsTheMutatedEntities ==
    [][IsTick =>
         /\ Len(NewBatch) = Len(chosen')
         /\ \A i \in 1..Len(NewBatch) :
              /\ DOMAIN NewBatch[i] =
                   {"tokenResourceId", "symbol", "name", "price", "change24h"}
              /\ NewBatch[i].symbol = chosen'[i]
              /\ NewBatch[i] = tokens'[chosen'[i]]
              /\ \A j \in 1..Len(NewBatch) :
                     i # j => NewBatch[i].symbol # NewBatch[j].symbol
         /\ \A key \in DOMAIN tokens :
              tokens'[key] # tokens[key]
                  => \E i \in 1..Len(NewBatch) : NewBatch[i].symbol = key]_vars

\* the last tick chose SOL and then ETH, changed the price of both, and
\* published their new records in that order
C19_Witness ==
    /\ chosen = <<SOL, ETH>>
    /\ published # <<>>
    /\ published[Len(published)].tokensUpdated = <<tokens[SOL], tokens[ETH]>>
    /\ tokens[SOL].price # InitialTokens[SOL].price
    /\ tokens[ETH].price # InitialTokens[ETH].price

----------------------------------------------------------------------------
\* C20: on every tick the mutator selects 1 or 2 entities, all distinct and
\* all in the entity store, so every published batch has 1 or 2 entries
\* with pairwise distinct identifiers.
C20_SelectionIsOneOrTwoDistinct ==
    /\ published # <<>> =>
         /\ Len(chosen) \in {1, 2}
         /\ Range(chosen) \subseteq DOMAIN tokens
         /\ \A i, j \in 1..Len(chosen) : i # j => chosen[i] # chosen[j]
    /\ \A k \in 1..Len(published) :
         LET batch == published[k].tokensUpdated
         IN /\ Len(batch) \in {1, 2}
            /\ \A i, j \in 1..Len(batch) :
                 i # j => Deref(batch[i]).tokenResourceId
                              # Deref(batch[j]).tokenResourceId

\* one tick published a batch of one entity and the next a batch of two
C20_Witness ==
    /\ Len(published) = 2
    /\ Len(published[1].tokensUpdated) = 1
    /\ Len(published[2].tokensUpdated) = 2
    /\ Len(chosen) = 2

----------------------------------------------------------------------------
(* The mutator on low prices: a store whose prices start at a few cents *)

\* the greatest starting price, in cents
MaxStartPrice == 30

\* the store with every price set to p cents
LowPriced(p) == [key \in DOMAIN InitialTokens |->
                     [InitialTokens[key] EXCEPT !.price = p]]

InitLowPrices ==
    /\ tokens \in {LowPriced(p) : p \in 1..MaxStartPrice}
    /\ published = <<>>
    /\ subState = [s \in Subs |-> "none"]
    /\ requested = [s \in Subs |-> <<>>]
    /\ upperSymbols = [s \in Subs |-> <<>>]
    /\ attachedAt = [s \in Subs |-> 0]
    /\ attached = [s \in Subs |-> FALSE]
    /\ running = [s \in Subs |-> FALSE]
    /\ pushQueue = [s \in Subs |-> <<>>]
    /\ pc = [s \in Subs |-> "idle"]
    /\ result = [s \in Subs |-> NoResult]
    /\ delivered = [s \in Subs |-> <<>>]
    /\ lastResult = [s \in Subs |-> "none"]
    /\ returnCalls = [s \in Subs |-> 0]
    /\ chosen = <<>>
    /\ lastQuery = NoQuery
    /\ cache = <<>>
    /\ cacheWritten = 0

TickInOrderWide ==
    \E nu \in NumDraws :
    \E fus \in [1..2 -> WideDraws], dus \in [1..2 -> DeltaDraws] :
        simulatePriceUpdates(nu, allSymbols, fus, dus)

NextLowPrices == TickInOrderWide

SpecLowPrices == InitLowPrices /\ [][NextLowPrices]_vars

\* C21: every entity's price stays strictly positive after any sequence of
\* mutation ticks, the least fluctuation and the smallest price of one cent
\* included.
C21_PriceStaysPositive ==
    \A key \in DOMAIN tokens : tokens[key].price > 0

\* ETH has been mutated by two ticks and its price is one cent, and one of
\* the two ticks mutated a second entity with it
C21_Witness ==
    /\ Len(published) = 2
    /\ published[1].tokensUpdated[1].symbol = ETH
    /\ published[2].tokensUpdated[1].symbol = ETH
    /\ tokens[ETH].price = 1
    /\ \E k \in 1..2 : Len(published[k].tokensUpdated) = 2

----------------------------------------------------------------------------
(* One client that may cancel, where a next() whose await has resolved     *)
(* does resume                                                             *)

\* the consumer calls next() as long as it has not cancelled
NextCallOpen == ~cancelled("s1") /\ next_call("s1")

NextCancel ==
    TickInOrder \/ Subscribe \/ NextCallOpen \/ NextResume \/ Return

\* the continuation of an await whose promise has resolved is run
SpecCancelFair == Init /\ [][NextCancel]_vars /\ WF_vars(NextResume)

\* the raw feed has reported done to the next() of s
HoldsDone(s) == pc[s] = "holding" /\ result[s].done

\* C22: a next() that is waiting on the raw feed when the subscription is
\* cancelled does not hang: the return() hands it a done result, with which
\* it completes; and once the raw feed has reported done, next() returns
\* that result and does not pull from the feed again.
C22_WaitingNextEndsOnCancel ==
    /\ [][(pc["s1"] = "waiting" /\ returnCalls["s1"] = 0
              /\ returnCalls'["s1"] = 1) => HoldsDone("s1")']_vars
    /\ HoldsDone("s1") ~> (pc["s1"] = "idle" /\ lastResult["s1"] = "done")
    /\ [][(HoldsDone("s1") /\ pc'["s1"] # pc["s1"])
              => /\ pc'["s1"] = "idle"
                 /\ lastResult'["s1"] = "done"
                 /\ pushQueue'["s1"] = pushQueue["s1"]]_vars

\* a subscription whose request matches every batch was delivered one, its
\* following next() was waiting when return() was called, and that next()
\* has completed with done
C22_Witness ==
    /\ requested["s1"] = <<<<"e","t","h">>, SOL>>
    /\ returnCalls["s1"] = 1
    /\ Len(delivered["s1"]) = 1
    /\ lastResult["s1"] = "done"
    /\ pc["s1"] = "idle"

----------------------------------------------------------------------------
(* One client that never cancels and keeps calling next(), with a timer    *)
(* that keeps firing                                                       *)

NextLive == TickInOrder \/ Subscribe \/ NextCall \/ NextResume

\* the timer fires, the consumer calls next() again after each result, and
\* the continuation of an await whose promise has resolved is run
SpecLive ==
    /\ Init /\ [][NextLive]_vars
    /\ WF_vars(TickInOrder) /\ WF_vars(NextCall) /\ WF_vars(NextResume)

\* the k-th tick ran while s was attached and mutated an entity that the
\* request of s names, by symbol or by id
Matches(s, k) ==
    /\ subState[s] = "open"
    /\ attachedAt[s] < k /\ k <= Len(published)
    /\ \E j \in 1..Len(published[k].tokensUpdated) :
           Deref(published[k].tokensUpdated[j]).symbol
               \in KnownEntities(requested[s])

\* s has been delivered the batch of the k-th tick
Received(s, k) == \E i \in 1..Len(delivered[s]) : delivered[s][i].seq = k

====
